---- MODULE Spec2Model ----
(***************************************************************************)
(* A model of compile_watcher.py: the CompileEventHandler base class, its  *)
(* three compilers (TSCompiler, LessCompiler, JinjaCMSCompiler), the       *)
(* initial sweep each compiler runs from its constructor, and the observer *)
(* thread that hands filesystem events to the registered handlers.         *)
(*                                                                         *)
(* Strings are sequences of one-character strings, so that split, join,    *)
(* endswith and indexing are computed as Python computes them.             *)
(***************************************************************************)
EXTENDS Integers, Sequences, FiniteSets, Bags, TLC

VARIABLES
    wiring,     \* "prod": the handlers of main; "test": the recording handler alone
    pc,         \* where the main thread is
    bdirs,      \* what is at the path of each build directory
    files,      \* the source files that exist
    outputs,    \* the output files that exist, each with the source it was built from
    walk,       \* the directories os.walk has still to yield
    names,      \* the filenames of the current directory still to be looked at
    curdir,     \* the directory os.walk yielded last
    swept,      \* per compiler, the files its sweep has passed to compile
    ev,         \* the event (or swept file) handled last
    last,       \* per handler, the calls it made for ev
    nev,        \* the number of events handled
    fed,        \* the events a test has fed to the recording handler
    recorded,   \* what the recording handler has recorded
    uncaught,   \* the exception that ended the thread, if any
    path,       \* the watch root: sys.argv[1], or "." when none is given
    constructed,\* the handlers whose constructor has returned
    probe,      \* one handler built from a given extension tuple, asked about a filename
    queue,      \* the events the observer has seen and its thread has not yet taken
    thread,     \* where the observer's thread is in the handling of an event
    inflight,   \* the external tools that run, each with the output path it writes
    changes     \* the number of changes made to source files while watching

vars == <<wiring, pc, bdirs, files, outputs, walk, names, curdir, swept,
          ev, last, nev, fed, recorded, uncaught, path, constructed, probe,
          queue, thread, inflight, changes>>

\* the variables of the main program
mainvars == <<wiring, pc, bdirs, files, outputs, walk, names, curdir, swept,
              ev, last, nev, fed, recorded, uncaught, path, constructed>>

\* the variables the main program does not touch
aside == <<probe, queue, thread, inflight, changes>>

\* the variables of the observer's thread
livevars == <<queue, thread, inflight, changes>>

(***************************************************************************)
(* Bounds.                                                                 *)
(***************************************************************************)
\* number of filesystem events the observer delivers in one run
MaxEvents == 3

\* number of changes made to source files while the observer's thread is followed
MaxChanges == 2

\* length of the extension tuple a handler is built from
MaxExts == 2

(***************************************************************************)
(* Python string operations.                                               *)
(***************************************************************************)
\* Python's None (a value that is no string)
NoneVal == <<"<None>">>

\* bool(s) for an optional string: None and "" are falsy
Truthy(s) == s # NoneVal /\ s # <<>>

\* s.endswith(suf)
EndsWith(s, suf) ==
    /\ Len(suf) <= Len(s)
    /\ SubSeq(s, Len(s) - Len(suf) + 1, Len(s)) = suf

\* s.startswith(pre)
StartsWith(s, pre) ==
    /\ Len(pre) <= Len(s)
    /\ SubSeq(s, 1, Len(pre)) = pre

RECURSIVE Split(_, _)
\* s.split(c) for a one-character separator c: always at least one piece
Split(s, c) ==
    LET idx == {i \in 1..Len(s) : s[i] = c}
    IN  IF idx = {}
        THEN <<s>>
        ELSE LET i == CHOOSE k \in idx : \A j \in idx : k <= j
             IN  <<SubSeq(s, 1, i - 1)>> \o Split(SubSeq(s, i + 1, Len(s)), c)

RECURSIVE Join(_, _)
\* c.join(parts)
Join(parts, c) ==
    IF Len(parts) = 0 THEN <<>>
    ELSE IF Len(parts) = 1 THEN parts[1]
    ELSE parts[1] \o <<c>> \o Join(Tail(parts), c)

\* os.path.join(dirpath, name) for a dirpath that does not end with a slash
PathJoin(dirpath, name) == dirpath \o <<"/">> \o name

(***************************************************************************)
(* The strings the program and its inputs are made of.                     *)
(***************************************************************************)
JsBuild == <<"j", "s", "b", "u", "i", "l", "d">>
CssDir == <<"c", "s", "s">>
NodeModules == <<"n", "o", "d", "e", "_", "m", "o", "d", "u", "l", "e", "s">>
Dot == <<".">>
SrcDir == <<"s", "r", "c">>
ATs == <<"a", ".", "t", "s">>
ATxt == <<"a", ".", "t", "x", "t">>
ALess == <<"a", ".", "l", "e", "s", "s">>
SrcAppTs == <<"s", "r", "c", "/", "a", "p", "p", ".", "t", "s">>
LibAppTs == <<"l", "i", "b", "/", "a", "p", "p", ".", "t", "s">>
SrcBTs == <<"s", "r", "c", "/", "b", ".", "t", "s">>
TJ2 == <<"t", ".", "j", "2">>
TJinja == <<"t", ".", "j", "i", "n", "j", "a">>
DirDTs == <<"d", ".", "t", "s">>
DirETs == <<"e", ".", "t", "s">>

\* the handlers: the three compilers of the main program, and a handler whose
\* compile only records its call
Compilers == {"TS", "LESS", "JINJA"}
Handlers == Compilers \cup {"DOUBLE"}

\* the build_dir argument each constructor passes to CompileEventHandler.__init__
BuildDirArg(h) ==
    CASE h = "TS" -> JsBuild
      [] h = "LESS" -> CssDir
      [] h = "JINJA" -> NoneVal
      [] h = "DOUBLE" -> JsBuild

\* the file_exts argument each constructor passes
FileExts(h) ==
    CASE h = "TS" -> << <<"t", "s">> >>
      [] h = "LESS" -> << <<"l", "e", "s", "s">> >>
      [] h = "JINJA" -> << <<"j", "i", "n", "j", "a">>, <<"j", "2">> >>
      [] h = "DOUBLE" -> << <<"t", "s">> >>

\* faulty constructors that set the extension of the sources as _compiles_to_ext
CompilesToExtOfSource(h) ==
    CASE h = "TS" -> <<".", "t", "s">>
      [] h = "LESS" -> <<".", "l", "e", "s", "s">>
      [] h = "JINJA" -> <<"j", "2">>
      [] h = "DOUBLE" -> <<".", "t", "s">>

\* self._compiles_to_ext as each constructor sets it
CompilesToExt(h) ==
    CASE h = "TS" -> <<".", "j", "s">>
      [] h = "LESS" -> <<".", "c", "s", "s">>
      [] h = "JINJA" -> <<"h", "t", "m", "l">>
      [] h = "DOUBLE" -> <<".", "j", "s">>

\* self.build_dir: the argument without one trailing slash
BuildDir(h) ==
    LET b == BuildDirArg(h)
    IN  IF Truthy(b) /\ b[Len(b)] = "/" THEN SubSeq(b, 1, Len(b) - 1) ELSE b

\* a faulty normalization that keeps each extension as given
NormExtAsGiven(x) == x

\* one extension in leading-dot form
NormExt(x) == IF StartsWith(x, <<".">>) THEN x ELSE <<".">> \o x

\* the tuple of lines 25-27 for the file_exts given
NormExts(file_exts) == [i \in DOMAIN file_exts |-> NormExt(file_exts[i])]

\* self.extensions
Extensions(h) == NormExts(FileExts(h))

\* __should_observe(fname) of a handler whose self.extensions is extensions
ShouldObserveOf(extensions, fname) ==
    \E i \in DOMAIN extensions : EndsWith(fname, extensions[i])

\* __should_observe(fname)
ShouldObserve(h, fname) == ShouldObserveOf(Extensions(h), fname)

\* a faulty __is_filesys_ev that does not look at is_directory
IsFilesysEvOfAnyKind(h, e) == ShouldObserve(h, e.src)

\* __is_filesys_ev(event)
IsFilesysEv(h, e) == ~e.isdir /\ ShouldObserve(h, e.src)

\* the result of a call: a value, or the exception it raised
Ret(v) == [exc |-> "none", val |-> v]
Raise(x) == [exc |-> x, val |-> <<>>]

\* newext: the output extension in leading-dot form (line 102)
NewExt(h) ==
    IF CompilesToExt(h)[1] = "." THEN CompilesToExt(h) ELSE <<".">> \o CompilesToExt(h)

\* ".".join(filename_parse[0:-1]) (line 104)
DropLast(filename_parse) == Join(SubSeq(filename_parse, 1, Len(filename_parse) - 1), ".")

\* sans_extension: the filename without what follows its last dot (lines 103-104)
SansExtension(filename) == DropLast(Split(filename, "."))

\* a faulty mapper that replaces the first path component, not the one before
\* the filename
InBuildDirFirst(sans_extension_parse, build_dir, newext) ==
    IF Len(sans_extension_parse) < 2
    THEN Raise("IndexError")
    ELSE Ret(Join([sans_extension_parse EXCEPT ![1] = build_dir], "/") \o newext)

\* a faulty mapper that replaces the filename, not the component before it
InBuildDirLast(sans_extension_parse, build_dir, newext) ==
    IF Len(sans_extension_parse) < 2
    THEN Raise("IndexError")
    ELSE Ret(Join([sans_extension_parse EXCEPT ![Len(sans_extension_parse)] = build_dir],
                  "/") \o newext)

\* lines 106-109: sans_extension_parse[-2] = build_dir raises IndexError on a
\* list of one element; otherwise the parts are joined and newext is appended
InBuildDir(sans_extension_parse, build_dir, newext) ==
    IF Len(sans_extension_parse) < 2
    THEN Raise("IndexError")
    ELSE Ret(Join([sans_extension_parse EXCEPT ![Len(sans_extension_parse) - 1] = build_dir],
                  "/") \o newext)

\* _change_extension(filename)
ChangeExtension(h, filename) ==
    IF Truthy(BuildDir(h))
    THEN InBuildDir(Split(SansExtension(filename), "/"), BuildDir(h), NewExt(h))
    ELSE Ret(SansExtension(filename) \o NewExt(h))

(***************************************************************************)
(* The calls a handler makes.  One handler invocation yields the sequence  *)
(* of calls it made (acts) and the exception that left it (exc).           *)
(***************************************************************************)
Act(op, a, b) == [op |-> op, a |-> a, b |-> b]
Outcome(acts, exc) == [acts |-> acts, exc |-> exc]
Nothing == Outcome(<<>>, "none")

\* statement x, then statement y unless x raised
Then(x, y) == IF x.exc # "none" THEN x ELSE Outcome(x.acts \o y.acts, y.exc)

\* the captured output of a failed tool run (cpe.output), opaque text
CpeOutput == <<"<cpe.output>">>

\* "compiled to %s" % outfile
CompiledTo(outfile) == <<"compiled to ">> \o outfile

\* "failure: %s" % src
FailureTitle(src) == <<"failure: ">> \o src

\* send_notif(title, msg): Notify().send(), which returns or raises
SendNotif(title, msg, sink) ==
    Outcome(<<Act("notif", title, msg)>>, IF sink = "raise" THEN "SinkError" ELSE "none")

\* the except clause of compile: two error log lines and the failure notification;
\* an exception of send_notif leaves the except clause
CompileFailed(src, sink) ==
    Then(Outcome(<<Act("log_error", src, <<>>), Act("log_error", CpeOutput, <<>>)>>, "none"),
         SendNotif(FailureTitle(src), CpeOutput, sink))

\* the try body after a zero exit: the info log line and the notification; only
\* CalledProcessError is caught, so an exception of send_notif leaves compile
CompileSucceeded(src, msg, sink) ==
    Then(Outcome(<<Act("log_info", src, <<>>)>>, "none"), SendNotif(src, msg, sink))

\* subprocess.check_output of the tool on src with output path out, and what
\* follows it in the try statement
RunTool(src, out, okmsg, tool, sink) ==
    IF tool = "ok"
    THEN Then(Outcome(<<Act("tool_ok", src, out)>>, "none"), CompileSucceeded(src, okmsg, sink))
    ELSE Then(Outcome(<<Act("tool_fail", src, out)>>, "none"), CompileFailed(src, sink))

\* compile once outfile is evaluated: an exception of _change_extension leaves
\* compile, since line 125 is before the try statement
CompileTo(src, outfile, tool, sink) ==
    IF outfile.exc # "none"
    THEN Outcome(<<Act("compile", src, <<>>)>>, outfile.exc)
    ELSE Then(Outcome(<<Act("compile", src, <<>>)>>, "none"),
              RunTool(src, outfile.val, CompiledTo(outfile.val), tool, sink))

\* TSCompiler.compile and LessCompiler.compile
CompileToFile(h, src, tool, sink) == CompileTo(src, ChangeExtension(h, src), tool, sink)

\* JinjaCMSCompiler.compile: the tool is run without the source or an output path
CompileSite(src, tool, sink) ==
    Then(Outcome(<<Act("compile", src, <<>>)>>, "none"),
         RunTool(src, <<>>, <<"Triggered a cms call.">>, tool, sink))

\* CompileEventHandler.compile, overridden only to record the call
CompileDouble(src) == Outcome(<<Act("compile", src, <<>>)>>, "none")

\* self.compile(src), by the class of the handler
Compile(h, src, tool, sink) ==
    CASE h \in {"TS", "LESS"} -> CompileToFile(h, src, tool, sink)
      [] h = "JINJA" -> CompileSite(src, tool, sink)
      [] h = "DOUBLE" -> CompileDouble(src)

\* __delete(fname) once its argument is evaluated: rm is run, its exit status ignored
Delete(target) ==
    IF target.exc # "none"
    THEN Outcome(<<>>, target.exc)
    ELSE Outcome(<<Act("rm", target.val, <<>>)>>, "none")

\* self.__delete(self._change_extension(src))
DeleteMapped(h, src) == Delete(ChangeExtension(h, src))

\* on_created
OnCreated(h, e, tool, sink) ==
    IF IsFilesysEv(h, e) THEN Compile(h, e.src, tool, sink) ELSE Nothing

\* on_modified
OnModified(h, e, tool, sink) ==
    IF IsFilesysEv(h, e) THEN Compile(h, e.src, tool, sink) ELSE Nothing

\* on_deleted
OnDeleted(h, e) ==
    IF IsFilesysEv(h, e) THEN DeleteMapped(h, e.src) ELSE Nothing

\* a faulty on_moved that compiles the new path before it deletes the old output
OnMovedCompileFirst(h, e, tool, sink) ==
    IF IsFilesysEv(h, e)
    THEN Then(IF ShouldObserve(h, e.dest) THEN Compile(h, e.dest, tool, sink) ELSE Nothing,
              DeleteMapped(h, e.src))
    ELSE Nothing

\* a faulty on_moved that compiles the destination whatever its extension
OnMovedAnyDest(h, e, tool, sink) ==
    IF IsFilesysEv(h, e)
    THEN Then(DeleteMapped(h, e.src), Compile(h, e.dest, tool, sink))
    ELSE Nothing

\* on_moved
OnMoved(h, e, tool, sink) ==
    IF IsFilesysEv(h, e)
    THEN Then(DeleteMapped(h, e.src),
              IF ShouldObserve(h, e.dest) THEN Compile(h, e.dest, tool, sink) ELSE Nothing)
    ELSE Nothing

\* FileSystemEventHandler.dispatch: the method for the kind of the event
Handle(h, e, tool, sink) ==
    CASE e.kind = "created" -> OnCreated(h, e, tool, sink)
      [] e.kind = "modified" -> OnModified(h, e, tool, sink)
      [] e.kind = "deleted" -> OnDeleted(h, e)
      [] e.kind = "moved" -> OnMoved(h, e, tool, sink)

(***************************************************************************)
(* The filesystem.  A file is named by its path relative to the working    *)
(* directory; "./x" and "x" name the same file.                            *)
(***************************************************************************)
\* the file a path names: the path without leading "./"
RECURSIVE FsPath(_)
FsPath(p) == IF StartsWith(p, <<".", "/">>) THEN FsPath(SubSeq(p, 3, Len(p))) ELSE p

\* the components of path f below the components d of a directory, or <<>>
\* when f is not below it
Under(d, f) ==
    IF Len(f) > Len(d) /\ SubSeq(f, 1, Len(d)) = d THEN SubSeq(f, Len(d) + 1, Len(f)) ELSE <<>>

\* what is below directory dirpath ("." or "./d/..."), as lists of components
Below(dirpath) == {Under(Split(dirpath, "/"), Split(PathJoin(Dot, f), "/")) : f \in files}

\* os.walk's filenames and dirnames for dirpath
FileNames(dirpath) == {c[1] : c \in {b \in Below(dirpath) : Len(b) = 1}}
DirNames(dirpath) == {c[1] : c \in {b \in Below(dirpath) : Len(b) > 1}}

\* the orders in which a directory listing can come
Perms(S) ==
    {q \in [1..Cardinality(S) -> S] : \A i, j \in 1..Cardinality(S) : q[i] = q[j] => i = j}

\* a faulty skip rule that skips node_modules at any depth
SkippedAnywhere(dirpath) ==
    \E i \in 2..Len(Split(dirpath, "/")) : Split(dirpath, "/")[i] = NodeModules

\* line 41-44: the walk skips the files of a dirpath whose second segment is node_modules
Skipped(dirpath) ==
    LET split_path == Split(dirpath, "/")
    IN  Len(split_path) > 1 /\ split_path[2] = NodeModules

\* the output files after one call: rm removes the file, a tool run that exits
\* zero with an output path writes it
ApplyAct(outs, x) ==
    CASE x.op = "rm" -> {o \in outs : o.out # FsPath(x.a)}
      [] x.op = "tool_ok" /\ x.b # <<>> ->
            {o \in outs : o.out # FsPath(x.b)} \cup {[out |-> FsPath(x.b), src |-> FsPath(x.a)]}
      [] OTHER -> outs

RECURSIVE ApplyActs(_, _)
\* the output files after the calls of one handler invocation
ApplyActs(outs, acts) ==
    IF acts = <<>> THEN outs ELSE ApplyActs(ApplyAct(outs, Head(acts)), Tail(acts))

(***************************************************************************)
(* Inputs.                                                                 *)
(***************************************************************************)
\* the tree in the working directory when the program starts
Tree1 ==
    { SrcAppTs,
      NodeModules \o <<"/", "x", ".", "t", "s">>,
      NodeModules \o <<"/", "p", "/", "y", ".", "t", "s">>,
      SrcDir \o <<"/">> \o NodeModules \o <<"/", "z", ".", "t", "s">>,
      TJ2,
      SrcDir \o <<"/", "r", ".", "t", "x", "t">> }
Trees == {{}, Tree1}

\* the paths events carry
EventPaths == {ATs, ATxt, ALess, SrcAppTs, SrcBTs, LibAppTs, TJinja}

BuildDirs == {JsBuild, CssDir}
DirStates == {"absent", "dir", "file"}

\* no handler is being probed
NoProbe == [at |-> "none", file_exts |-> <<>>, extensions |-> <<>>, fname |-> <<>>,
            result |-> FALSE]

\* the observer's thread at one place of the handling of event e: the handlers
\* still to call, and what the handler called last did
ThreadAt(at, e, todo, r) == [at |-> at, e |-> e, todo |-> todo, r |-> r]

NoEvent == [kind |-> "none", src |-> <<>>, dest |-> <<>>, isdir |-> FALSE]
Event(kind, src, dest, isdir) == [kind |-> kind, src |-> src, dest |-> dest, isdir |-> isdir]

\* the record of a handler's calls for one event: NoCall when it made none
NoCall == [acts |-> <<>>, exc |-> "none"]
Called(r) == [acts |-> r.acts, exc |-> r.exc]
NoCalls == [h \in Handlers |-> NoCall]

At(at, h) == [at |-> at, h |-> h]

\* the observer's thread is not followed
LiveIdle ==
    /\ queue = <<>>
    /\ thread = ThreadAt("idle", NoEvent, <<>>, NoCall)
    /\ inflight = <<>>
    /\ changes = 0

\* the handlers main registers (lines 191-193), or the recording handler alone
Registered == IF wiring = "prod" THEN Compilers ELSE {"DOUBLE"}

(***************************************************************************)
(* The state machine.                                                      *)
(***************************************************************************)
Init ==
    /\ wiring \in {"prod", "test"}
    /\ pc = At("init", IF wiring = "prod" THEN "TS" ELSE "DOUBLE")
    /\ bdirs \in {[d \in BuildDirs |-> st] : st \in DirStates}
    /\ files \in (IF wiring = "prod" THEN Trees ELSE {{}})
    /\ outputs = {}
    /\ walk = <<>>
    /\ names = {}
    /\ curdir = <<>>
    /\ swept = [h \in Compilers |-> EmptyBag]
    /\ ev = NoEvent
    /\ last = NoCalls
    /\ nev = 0
    /\ fed = <<>>
    /\ recorded = <<>>
    /\ uncaught = "none"
    /\ path \in (IF files = Tree1 THEN {Dot, SrcDir} ELSE {Dot})
    /\ constructed = {}
    /\ probe = NoProbe
    /\ LiveIdle

\* a faulty main that starts the observer as soon as one handler is constructed
AfterConstructorStartsAtOnce(h) == At("start", "-")

\* what main does after the constructor of h has returned (lines 191-194)
AfterConstructor(h) ==
    CASE h = "TS" -> At("init", "LESS")
      [] h = "LESS" -> At("init", "JINJA")
      [] OTHER -> At("start", "-")

\* a faulty constructor that never makes the build directory
MakeBuildDirNever(h) == bdirs

\* CompileEventHandler.__init__: the build directory is made when nothing is at
\* its path; a non-directory there is only logged
MakeBuildDir(h) ==
    IF BuildDirArg(h) # NoneVal /\ bdirs[BuildDir(h)] = "absent"
    THEN [bdirs EXCEPT ![BuildDir(h)] = "dir"]
    ELSE bdirs

\* a faulty constructor that sweeps only when it has just made the build directory
ConstructSweepsIfNew(h) ==
    /\ pc = At("init", h)
    /\ bdirs' = MakeBuildDir(h)
    /\ IF h \in Compilers /\ bdirs' # bdirs
       THEN /\ pc' = At("sweep", h)
            /\ walk' = <<Dot>>
            /\ constructed' = constructed
       ELSE /\ pc' = AfterConstructor(h)
            /\ walk' = <<>>
            /\ constructed' = constructed \cup {h}
    /\ UNCHANGED <<wiring, files, outputs, names, curdir, swept, ev, last, nev,
                   fed, recorded, uncaught, path, aside>>

\* the constructor of handler h up to its call of _compile_all, which starts
\* os.walk at "."
Construct(h) ==
    /\ pc = At("init", h)
    /\ bdirs' = MakeBuildDir(h)
    /\ IF h \in Compilers
       THEN /\ pc' = At("sweep", h)
            /\ walk' = <<Dot>>
            /\ constructed' = constructed
       ELSE /\ pc' = AfterConstructor(h)
            /\ walk' = <<>>
            /\ constructed' = constructed \cup {h}
    /\ UNCHANGED <<wiring, files, outputs, names, curdir, swept, ev, last, nev,
                   fed, recorded, uncaught, path, aside>>

\* os.walk yields the next directory, top-down: its subdirectories are walked
\* next, in the order of the listing; a skipped directory compiles no file
SweepDir(h) ==
    /\ pc = At("sweep", h)
    /\ names = {}
    /\ walk # <<>>
    /\ LET dirpath == Head(walk)
       IN  /\ \E order \in Perms(DirNames(dirpath)) :
                walk' = [i \in DOMAIN order |-> PathJoin(dirpath, order[i])] \o Tail(walk)
           /\ names' = IF Skipped(dirpath) THEN {} ELSE FileNames(dirpath)
           /\ curdir' = dirpath
    /\ UNCHANGED <<wiring, pc, bdirs, files, outputs, swept, ev, last, nev,
                   fed, recorded, uncaught, path, constructed, aside>>

\* the state after compile(fullfilename) of the sweep returned or raised r; an
\* exception leaves the constructor and ends the program
Swept(h, name, fullfilename, r) ==
    /\ swept' = [swept EXCEPT ![h] = @ (+) SetToBag({fullfilename})]
    /\ ev' = Event("sweep", fullfilename, <<>>, FALSE)
    /\ last' = [NoCalls EXCEPT ![h] = Called(r)]
    /\ outputs' = ApplyActs(outputs, r.acts)
    /\ uncaught' = r.exc
    /\ names' = IF r.exc = "none" THEN names \ {name} ELSE names
    /\ pc' = IF r.exc = "none" THEN pc ELSE At("crashed", h)

\* one iteration of the loop over filenames: a matching file is compiled
SweepFile(h) ==
    /\ pc = At("sweep", h)
    /\ \E name \in names :
         IF ShouldObserve(h, name)
         THEN \E tool \in {"ok", "fail"}, sink \in {"ok", "raise"} :
                Swept(h, name, PathJoin(curdir, name),
                      Compile(h, PathJoin(curdir, name), tool, sink))
         ELSE /\ names' = names \ {name}
              /\ UNCHANGED <<swept, ev, last, outputs, uncaught, pc>>
    /\ UNCHANGED <<wiring, bdirs, files, walk, curdir, nev, fed, recorded, path,
                   constructed, aside>>

\* the walk is exhausted: _compile_all and the constructor return
SweepDone(h) ==
    /\ pc = At("sweep", h)
    /\ names = {}
    /\ walk = <<>>
    /\ pc' = AfterConstructor(h)
    /\ constructed' = constructed \cup {h}
    /\ UNCHANGED <<wiring, bdirs, files, outputs, walk, names, curdir, swept, ev,
                   last, nev, fed, recorded, uncaught, path, aside>>

\* observer.start()
Start ==
    /\ pc = At("start", "-")
    /\ pc' = At("watching", "-")
    /\ UNCHANGED <<wiring, bdirs, files, outputs, walk, names, curdir, swept, ev,
                   last, nev, fed, recorded, uncaught, path, constructed, aside>>

\* whether path p names a file that exists
Exists(p) == FsPath(p) \in files

\* whether path p lies in the tree the observer watches (line 191-193: the
\* handlers are scheduled on path, recursively)
Watched(p) == path = Dot \/ StartsWith(p, path \o <<"/">>)

\* the handlers whose on_* method does something for event e; the others
\* return at once, so where they come in the order of the calls shows nowhere
Taking(e) == {h \in Registered : IsFilesysEv(h, e)}

\* the other registered handlers, in some order
Idle(e) == CHOOSE q \in Perms(Registered \ Taking(e)) : TRUE

\* the handlers that reach self.compile for event e
Compiling(e) ==
    {h \in Taking(e) :
        \/ e.kind \in {"created", "modified"}
        \/ e.kind = "moved" /\ ShouldObserve(h, e.dest)}

\* the outcome the environment holds for handler h
Of(outcomes, h) == IF h \in DOMAIN outcomes THEN outcomes[h] ELSE "ok"

\* the thread after handler h returned or raised r
AfterCall(acc, h, r) ==
    [calls |-> [acc.calls EXCEPT ![h] = Called(r)],
     outs |-> ApplyActs(acc.outs, r.acts),
     exc |-> r.exc]

RECURSIVE RunHandlers(_, _, _, _, _, _)
\* the observer thread calls the handlers one after the other with event e;
\* the first exception that leaves a handler ends the thread
RunHandlers(order, i, e, tool, sink, acc) ==
    IF i > Len(order) \/ acc.exc # "none" THEN acc
    ELSE RunHandlers(order, i + 1, e, tool, sink,
                     AfterCall(acc, order[i],
                               Handle(order[i], e, Of(tool, order[i]), Of(sink, order[i]))))

\* the calls a recording handler keeps: its compile calls and its deletions
Recording(acts) == SelectSeq(acts, LAMBDA x : x.op \in {"compile", "rm"})

\* the state after the handlers were called with event e, with result r
Delivered(e, r) ==
    /\ ev' = e
    /\ last' = r.calls
    /\ outputs' = r.outs
    /\ uncaught' = r.exc
    /\ recorded' = recorded \o Recording(r.calls["DOUBLE"].acts)

\* the observer thread handles event e, whose change of the tree is newfiles
Deliver(e, newfiles) ==
    /\ pc = At("watching", "-")
    /\ uncaught = "none"
    /\ nev < MaxEvents
    /\ \E order \in Perms(Taking(e)),
          tool \in [Compiling(e) -> {"ok", "fail"}],
          sink \in [Compiling(e) -> {"ok", "raise"}] :
         Delivered(e, RunHandlers(Idle(e) \o order, 1, e, tool, sink,
                                  [calls |-> NoCalls, outs |-> outputs, exc |-> "none"]))
    /\ files' = newfiles
    /\ nev' = nev + 1
    /\ fed' = IF wiring = "test" THEN Append(fed, e) ELSE fed
    /\ UNCHANGED <<wiring, pc, bdirs, walk, names, curdir, swept, path, constructed, aside>>

\* a file is created
FileCreated ==
    \E p \in EventPaths :
        /\ Watched(p)
        /\ ~Exists(p)
        /\ Deliver(Event("created", p, <<>>, FALSE), files \cup {FsPath(p)})

\* a file is modified
FileModified ==
    \E p \in EventPaths :
        /\ Watched(p)
        /\ Exists(p)
        /\ Deliver(Event("modified", p, <<>>, FALSE), files)

\* a file is deleted
FileDeleted ==
    \E p \in EventPaths :
        /\ Watched(p)
        /\ Exists(p)
        /\ Deliver(Event("deleted", p, <<>>, FALSE), files \ {FsPath(p)})

\* a file is moved
FileMoved ==
    \E p \in EventPaths, q \in EventPaths :
        /\ Watched(p)
        /\ Watched(q)
        /\ Exists(p)
        /\ ~Exists(q)
        /\ Deliver(Event("moved", p, q, FALSE), (files \ {FsPath(p)}) \cup {FsPath(q)})

\* an event of a directory (whose name may end like a source file's)
DirectoryEvent ==
    \E k \in {"created", "modified", "deleted", "moved"} :
        /\ Watched(DirDTs)
        /\ Deliver(Event(k, DirDTs, IF k = "moved" THEN DirETs ELSE <<>>, TRUE), files)

Next ==
    \/ \E h \in Handlers : Construct(h)
    \/ \E h \in Compilers : SweepDir(h)
    \/ \E h \in Compilers : SweepFile(h)
    \/ \E h \in Compilers : SweepDone(h)
    \/ Start
    \/ FileCreated
    \/ FileModified
    \/ FileDeleted
    \/ FileMoved
    \/ DirectoryEvent

Spec == Init /\ [][Next]_vars

(***************************************************************************)
(* One CompileEventHandler built from any extension tuple, and its         *)
(* __should_observe asked about any filename.                              *)
(***************************************************************************)
\* the main program has not started
MainIdle ==
    /\ wiring = "none"
    /\ pc = At("none", "-")
    /\ bdirs = [d \in BuildDirs |-> "absent"]
    /\ files = {}
    /\ outputs = {}
    /\ walk = <<>>
    /\ names = {}
    /\ curdir = <<>>
    /\ swept = [h \in Compilers |-> EmptyBag]
    /\ ev = NoEvent
    /\ last = NoCalls
    /\ nev = 0
    /\ fed = <<>>
    /\ recorded = <<>>
    /\ uncaught = "none"
    /\ path = Dot
    /\ constructed = {}

\* the strings an extension tuple is made of: dotted, undotted, upper case
ExtPool == { <<"t", "s">>, <<".", "t", "s">>, <<".", "j", "2">>, <<"T", "S">> }

\* the extension tuples of at most MaxExts members
ExtTuples == UNION {[1..n -> ExtPool] : n \in 0..MaxExts}

\* the filenames __should_observe is asked about
ProbeNames ==
    { ATs, <<"a", "t", "s">>, <<"a", ".", "T", "S">>, <<"a", ".", "j", "2">>,
      <<"t", "s">>, <<"a", ".", "t", "s", "x">> }

ProbeInit ==
    /\ MainIdle
    /\ LiveIdle
    /\ \E file_exts \in ExtTuples : probe = [NoProbe EXCEPT !.at = "args", !.file_exts = file_exts]

\* __init__ sets self.extensions
ProbeConstruct ==
    /\ probe.at = "args"
    /\ probe' = [probe EXCEPT !.at = "built", !.extensions = NormExts(probe.file_exts)]
    /\ UNCHANGED <<mainvars, livevars>>

\* __should_observe(fname) is called
ProbeObserve ==
    /\ probe.at = "built"
    /\ \E fname \in ProbeNames :
         probe' = [probe EXCEPT !.at = "asked", !.fname = fname,
                                !.result = ShouldObserveOf(probe.extensions, fname)]
    /\ UNCHANGED <<mainvars, livevars>>

ProbeNext == ProbeConstruct \/ ProbeObserve

ProbeSpec == ProbeInit /\ [][ProbeNext]_vars

(***************************************************************************)
(* The observer's thread, step by step.  The one Observer of main takes    *)
(* the events from its queue one after the other and calls every scheduled *)
(* handler with each; compile starts the external tool with                *)
(* subprocess.check_output, which returns when the tool has exited.  A     *)
(* tool that exits with status zero has written its output file, inside    *)
(* the watched tree, and the observer sees that change like any other.     *)
(***************************************************************************)
\* the main program has constructed its handlers and started the observer
MainWatching ==
    /\ wiring = "prod"
    /\ pc = At("watching", "-")
    /\ bdirs = [d \in BuildDirs |-> "dir"]
    /\ files = {}
    /\ outputs = {}
    /\ walk = <<>>
    /\ names = {}
    /\ curdir = <<>>
    /\ swept = [h \in Compilers |-> EmptyBag]
    /\ ev = NoEvent
    /\ last = NoCalls
    /\ nev = 0
    /\ fed = <<>>
    /\ recorded = <<>>
    /\ uncaught = "none"
    /\ path = Dot
    /\ constructed = Compilers

\* the source files that are changed while the thread is followed
LivePaths == {SrcAppTs, SrcBTs, TJinja}

\* a faulty call that starts the tool and does not wait for it
BlockingNever(x) == FALSE

\* whether call x returns only when the process it started has exited:
\* subprocess.check_output does
Blocking(x) == x.op \in {"tool_ok", "tool_fail"}

\* the tool runs handler call r starts, each with the output path it writes
\* (none when the tool fails or is given no output path)
ToolRuns(r) ==
    [i \in 1..Len(SelectSeq(r.acts, LAMBDA x : x.op \in {"tool_ok", "tool_fail"})) |->
        IF SelectSeq(r.acts, LAMBDA x : x.op \in {"tool_ok", "tool_fail"})[i].op = "tool_ok"
        THEN SelectSeq(r.acts, LAMBDA x : x.op \in {"tool_ok", "tool_fail"})[i].b
        ELSE <<>>]

\* whether handler call r waits for a tool it started
Waits(r) == \E i \in DOMAIN r.acts : Blocking(r.acts[i])

\* the thread after the handler call r has returned or raised: an exception
\* that leaves a handler ends the thread
Returned(e, todo, r) ==
    ThreadAt(IF r.exc # "none" THEN "dead" ELSE "calling", e, todo, r)

LiveInit ==
    /\ MainWatching
    /\ probe = NoProbe
    /\ LiveIdle

\* a source file is written: the observer queues the event
SourceChange ==
    /\ changes < MaxChanges
    /\ \E p \in LivePaths, k \in {"created", "modified"} :
          queue' = Append(queue, Event(k, p, <<>>, FALSE))
    /\ changes' = changes + 1
    /\ UNCHANGED <<mainvars, probe, thread, inflight>>

\* the thread takes the next event from the queue, to call the handlers in
\* some order
TakeEvent ==
    /\ thread.at = "idle"
    /\ queue # <<>>
    /\ \E order \in Perms(Registered) :
          thread' = ThreadAt("calling", Head(queue), order, NoCall)
    /\ queue' = Tail(queue)
    /\ UNCHANGED <<mainvars, probe, inflight, changes>>

\* the given files and the files the tools write when the handlers compile them
Written(given) ==
    given \cup
    {ToolRuns(Called(Handle(hp[1], Event("modified", hp[2], <<>>, FALSE), "ok", "ok")))[1] :
        hp \in {x \in Compilers \X given : ShouldObserve(x[1], x[2])}}

\* the files an event can be about: the sources, what the tools write for
\* them, and what the tools write for those in turn
LiveFiles == Written(Written(LivePaths))

\* the call each handler makes for each event of such a file, by what the
\* tool and the notification sink do
HandlerCalls ==
    {[h |-> h, e |-> Event(k, p, <<>>, FALSE), tool |-> tool, sink |-> sink,
      r |-> Called(Handle(h, Event(k, p, <<>>, FALSE), tool, sink))] :
        h \in Compilers, k \in {"created", "modified"}, p \in LiveFiles,
        tool \in {"ok", "fail"}, sink \in {"ok", "raise"}}

HandlerCall(h, e, tool, sink) ==
    (CHOOSE c \in HandlerCalls :
        c.h = h /\ c.e = e /\ c.tool = tool /\ c.sink = sink).r

\* the thread after it called a handler whose call is r
AfterHandlerCall(e, todo, r) ==
    /\ inflight' = inflight \o ToolRuns(r)
    /\ thread' = IF Waits(r) THEN ThreadAt("tool", e, todo, r) ELSE Returned(e, todo, r)

\* the thread calls the next handler with the event
CallHandler ==
    /\ thread.at = "calling"
    /\ thread.todo # <<>>
    /\ \E tool \in {"ok", "fail"}, sink \in {"ok", "raise"} :
          AfterHandlerCall(thread.e, Tail(thread.todo),
                           HandlerCall(Head(thread.todo), thread.e, tool, sink))
    /\ UNCHANGED <<mainvars, probe, queue, changes>>

\* a tool exits: the observer queues the event of the output file the tool
\* has written, and a thread that waits for the tool goes on
ToolExits ==
    /\ inflight # <<>>
    /\ inflight' = Tail(inflight)
    /\ IF Head(inflight) # <<>>
       THEN \E k \in {"created", "modified"} :
               queue' = Append(queue, Event(k, Head(inflight), <<>>, FALSE))
       ELSE queue' = queue
    /\ thread' = IF thread.at = "tool"
                 THEN Returned(thread.e, thread.todo, thread.r)
                 ELSE thread
    /\ UNCHANGED <<mainvars, probe, changes>>

\* every handler has been called with the event
EventDone ==
    /\ thread.at = "calling"
    /\ thread.todo = <<>>
    /\ thread' = ThreadAt("idle", thread.e, <<>>, thread.r)
    /\ UNCHANGED <<mainvars, probe, queue, inflight, changes>>

LiveNext == SourceChange \/ TakeEvent \/ CallHandler \/ ToolExits \/ EventDone

\* the thread runs whenever it can, and a tool that was started exits
LiveSpec ==
    /\ LiveInit
    /\ [][LiveNext]_vars
    /\ WF_vars(TakeEvent)
    /\ WF_vars(CallHandler)
    /\ WF_vars(ToolExits)
    /\ WF_vars(EventDone)

(***************************************************************************)
(* Properties.                                                             *)
(***************************************************************************)
\* the places of the calls named op among the calls of r
Ops(r, op) == {i \in DOMAIN r.acts : r.acts[i].op = op}

\* the calls of r, as a set
CallsOf(r) == {r.acts[i] : i \in DOMAIN r.acts}

\* the normalized extensions of each handler, written out
NormalizedExtensions(h) ==
    CASE h \in {"TS", "DOUBLE"} -> { <<".", "t", "s">> }
      [] h = "LESS" -> { <<".", "l", "e", "s", "s">> }
      [] h = "JINJA" -> { <<".", "j", "i", "n", "j", "a">>, <<".", "j", "2">> }

\* path p ends with one of the handler's normalized extensions
Matches(h, p) == \E x \in NormalizedExtensions(h) : EndsWith(p, x)

\* the event handled last is one of the four kinds the observer delivers
IsEvent == ev.kind \in {"created", "modified", "deleted", "moved"}

JsBuildAJs == <<"j", "s", "b", "u", "i", "l", "d", "/", "a", ".", "j", "s">>
JsBuildAppJs == <<"j", "s", "b", "u", "i", "l", "d", "/", "a", "p", "p", ".", "j", "s">>
JsBuildBJs == <<"j", "s", "b", "u", "i", "l", "d", "/", "b", ".", "j", "s">>

\* C1: fed Created("a.ts"), Modified("a.ts"), Deleted("a.ts"), a handler with
\* build directory "jsbuild" and extension "ts" whose compile only records has
\* recorded compile("a.ts"), compile("a.ts") and then one deletion of
\* "jsbuild/a.js", nothing else, and no error has occurred.
C1_CreatedModifiedDeleted ==
    fed = << Event("created", ATs, <<>>, FALSE),
             Event("modified", ATs, <<>>, FALSE),
             Event("deleted", ATs, <<>>, FALSE) >>
    => /\ recorded = << Act("compile", ATs, <<>>),
                        Act("compile", ATs, <<>>),
                        Act("rm", JsBuildAJs, <<>>) >>
       /\ uncaught = "none"

\* C2: whenever the tool run by compile for an event exits non-zero, the failure is logged
\* and notified with the source path and the captured output, no exception
\* leaves the handler, and the thread goes on to handle later events.
C2_ToolFailureContained ==
    \A h \in Compilers :
        \A i \in {j \in Ops(last[h], "tool_fail") : IsEvent} :
            /\ Act("log_error", last[h].acts[i].a, <<>>) \in CallsOf(last[h])
            /\ Act("notif", <<"failure: ">> \o last[h].acts[i].a, CpeOutput) \in CallsOf(last[h])
            /\ last[h].exc = "none"
            /\ uncaught = "none"

\* C3: a call of compile on a matching source path returns normally whatever
\* the tool does: no exception other than one of the notification sink (which
\* C4 is about) leaves it, also for a path without a directory component.
C3_CompileReturns ==
    \A h \in Handlers :
        Ops(last[h], "compile") # {} => last[h].exc \in {"none", "SinkError"}

\* C4: an exception raised by the notification sink leaves neither compile nor
\* the handler, and does not end the handling of events.
C4_SinkFailureContained ==
    /\ \A h \in Handlers : last[h].exc # "SinkError"
    /\ uncaught # "SinkError"

\* C5: a Moved event of a file whose source path matches the handler and whose
\* destination does not makes the handler delete exactly once and compile
\* never.
C5_MovedOut ==
    \A h \in Registered :
        (ev.kind = "moved" /\ ~ev.isdir /\ Matches(h, ev.src) /\ ~Matches(h, ev.dest))
        => /\ Cardinality(Ops(last[h], "rm")) = 1
           /\ Ops(last[h], "compile") = {}

\* C6: a Moved event of a file whose source and destination paths both match
\* the handler makes the handler delete exactly once and then compile exactly
\* once, the new path.
C6_MovedWithin ==
    \A h \in Registered :
        (ev.kind = "moved" /\ ~ev.isdir /\ Matches(h, ev.src) /\ Matches(h, ev.dest))
        => /\ Cardinality(Ops(last[h], "rm")) = 1
           /\ Cardinality(Ops(last[h], "compile")) = 1
           /\ \A i \in Ops(last[h], "compile") : last[h].acts[i].a = ev.dest

\* the places of character c in s, and the largest of a set of places
Places(s, c) == {i \in 1..Len(s) : s[i] = c}
Largest(S) == CHOOSE k \in S : \A j \in S : j <= k

\* the build directory and the output extension of each handler, written out
ConfiguredBuildDir(h) ==
    CASE h \in {"TS", "DOUBLE"} -> <<"j", "s", "b", "u", "i", "l", "d">>
      [] h = "LESS" -> <<"c", "s", "s">>
OutputExtension(h) ==
    CASE h \in {"TS", "DOUBLE"} -> <<".", "j", "s">>
      [] h = "LESS" -> <<".", "c", "s", "s">>
      [] h = "JINJA" -> <<".", "h", "t", "m", "l">>

\* <prefix><dir>/<name>.<ext> with <dir> replaced: what precedes <dir>, the
\* build directory, "/<name>", the output extension
Replaced(p, slash, dot, before, h) ==
    SubSeq(p, 1, IF before = {} THEN 0 ELSE Largest(before))
        \o ConfiguredBuildDir(h) \o SubSeq(p, slash, dot - 1) \o OutputExtension(h)

\* the same, given the places of the last slash and of the last dot
ReplacedAt(p, slash, dot, h) ==
    Replaced(p, slash, dot, {i \in Places(p, "/") : i < slash}, h)

\* the output path the mapping rule gives source path p of handler h
MappedOutput(h, p) ==
    IF h = "JINJA"
    THEN SubSeq(p, 1, Largest(Places(p, ".")) - 1) \o OutputExtension(h)
    ELSE ReplacedAt(p, Largest(Places(p, "/")), Largest(Places(p, ".")), h)

\* C7: every output path a handler deletes or has the tool write is the source
\* path with its extension stripped, the path component before the filename
\* replaced by the build directory when one is configured, and the output
\* extension appended; "src/app.ts" of the TS handler gives "jsbuild/app.js";
\* with no build directory only the extension is swapped.
C7_Mapping ==
    \A h \in Handlers :
        \A i \in DOMAIN last[h].acts :
            /\ last[h].acts[i].op = "rm"
               => /\ last[h].acts[i].a = MappedOutput(h, ev.src)
                  /\ (h = "TS" /\ ev.src = SrcAppTs) => last[h].acts[i].a = JsBuildAppJs
            /\ (last[h].acts[i].op \in {"tool_ok", "tool_fail"} /\ h \in {"TS", "LESS"})
               => last[h].acts[i].b = MappedOutput(h, last[h].acts[i].a)

\* the TS handler has deleted "jsbuild/app.js" for the deletion of "src/app.ts"
C7_Witness ==
    /\ ev = Event("deleted", SrcAppTs, <<>>, FALSE)
    /\ last["TS"] = Outcome(<<Act("rm", JsBuildAppJs, <<>>)>>, "none")

\* _change_extension of each handler on each path of the inputs
Mapped == [h \in Handlers |-> [p \in EventPaths \cup Tree1 |-> ChangeExtension(h, p)]]

\* the mapped output of path p of handler h, when the mapping gives one
HasOutput(h, p) == Matches(h, p) /\ Mapped[h][p].exc = "none"
OutputOf(h, p) == Mapped[h][p].val

\* the directory part and the extension of a path
DirOf(p) == SubSeq(p, 1, IF Places(p, "/") = {} THEN 0 ELSE Largest(Places(p, "/")))
ExtOf(p) == SubSeq(p, Largest(Places(p, ".")), Len(p))
Alike(p, q) == DirOf(p) = DirOf(q) /\ ExtOf(p) = ExtOf(q)

\* a Deleted event has just been handled
DeletedNow == ev'.kind = "deleted" /\ nev' = nev + 1

\* C8: two distinct existing source paths that match one compiler are mapped to
\* two distinct output paths, and the deletion of a source removes no output
\* built from another source that still exists.
C8_OneForOne ==
    /\ [](\A p \in files, q \in files :
            p # q => \A h \in Registered :
                        (HasOutput(h, p) /\ HasOutput(h, q)) => OutputOf(h, p) # OutputOf(h, q))
    /\ [][DeletedNow => \A o \in outputs \ outputs' : o.src \notin files']_vars

\* C8 (amended): two distinct existing source paths in the same directory that
\* match the same extension of one compiler are mapped to two distinct output
\* paths, and the deletion of a source removes no output built from another
\* existing source of the same directory and extension.
C8_OneForOneInDirectory ==
    /\ [](\A p \in files, q \in files :
            (p # q /\ Alike(p, q)) => \A h \in Registered :
                        (HasOutput(h, p) /\ HasOutput(h, q)) => OutputOf(h, p) # OutputOf(h, q))
    /\ [][DeletedNow => \A o \in outputs \ outputs' :
                            o.src \in files' => ~Alike(o.src, ev'.src)]_vars

\* "src/app.ts" has been deleted and its output removed, while "src/b.ts" and
\* the output built from it are still there
C8_Witness ==
    /\ ev = Event("deleted", SrcAppTs, <<>>, FALSE)
    /\ last["TS"] = Outcome(<<Act("rm", JsBuildAppJs, <<>>)>>, "none")
    /\ SrcBTs \in files
    /\ [out |-> JsBuildBJs, src |-> SrcBTs] \in outputs

\* the sweep of compiler h has run to its end
SweepOrder(h) == CASE h = "TS" -> 1 [] h = "LESS" -> 2 [] h = "JINJA" -> 3
SweepFinished(h) ==
    /\ wiring = "prod"
    /\ \/ pc.at \in {"start", "watching"}
       \/ pc.at \in {"init", "sweep"} /\ SweepOrder(h) < SweepOrder(pc.h)

\* path f, from the walk root, lies under the node_modules of the root
UnderRootNodeModules(f) == Len(Split(f, "/")) > 2 /\ Split(f, "/")[2] = NodeModules

\* C9: the sweep compiles no file under ./node_modules, at any depth; once a
\* sweep has run to its end it has compiled every other matching file: those of
\* the walk root itself and those under a node_modules further down, such as
\* ./src/node_modules/z.ts.
C9_SkipRule ==
    \A h \in Compilers :
        /\ \A f \in BagToSet(swept[h]) : ~UnderRootNodeModules(f)
        /\ (SweepFinished(h) /\ nev = 0)
           => \A f \in files :
                (Matches(h, f) /\ ~UnderRootNodeModules(PathJoin(Dot, f)))
                => PathJoin(Dot, f) \in BagToSet(swept[h])

\* the sweep of the TS compiler is over: it compiled ./src/node_modules/z.ts and
\* neither ./node_modules/x.ts nor ./node_modules/p/y.ts
C9_Witness ==
    /\ SweepFinished("TS")
    /\ nev = 0
    /\ NodeModules \o <<"/", "x", ".", "t", "s">> \in files
    /\ NodeModules \o <<"/", "p", "/", "y", ".", "t", "s">> \in files
    /\ BagToSet(swept["TS"]) =
         { PathJoin(Dot, SrcAppTs),
           PathJoin(Dot, SrcDir \o <<"/">> \o NodeModules \o <<"/", "z", ".", "t", "s">>) }

\* C10: for an event of a directory, or one whose source path does not end with
\* one of the handler's normalized extensions, the handler makes no compile
\* call and no deletion call.
C10_Ignored ==
    \A h \in Registered :
        (IsEvent /\ (ev.isdir \/ ~Matches(h, ev.src)))
        => /\ Ops(last[h], "compile") = {}
           /\ Ops(last[h], "rm") = {}
           /\ last[h].exc = "none"

\* "a.txt" has been moved to "a.ts" and the TS handler has done nothing
C10_Witness ==
    /\ ev = Event("moved", ATxt, ATs, FALSE)
    /\ wiring = "prod"
    /\ last["TS"] = NoCall
    /\ uncaught = "none"

\* extension x with a leading dot put before it unless it has one
Dotted(x) == IF x # <<>> /\ x[1] = "." THEN x ELSE <<".">> \o x

\* the last characters of f are, one by one and in the same case, those of x
HasSuffix(f, x) ==
    /\ Len(f) >= Len(x)
    /\ \A j \in 1..Len(x) : f[Len(f) - Len(x) + j] = x[j]

\* C11: for every extension tuple a handler is built from and every filename,
\* __should_observe is true exactly when the filename ends, case-sensitively,
\* with a member of the tuple put into leading-dot form.
C11_ShouldObserve ==
    probe.at = "asked"
    => (probe.result <=>
          \E i \in DOMAIN probe.file_exts : HasSuffix(probe.fname, Dotted(probe.file_exts[i])))

\* a handler built from ("ts", ".j2") has said yes to "a.j2"
C11_Witness ==
    /\ probe.at = "asked"
    /\ probe.file_exts = << <<"t", "s">>, <<".", "j", "2">> >>
    /\ probe.fname = <<"a", ".", "j", "2">>
    /\ probe.result

\* the handlers constructed with a non-empty build directory
WithBuildDir == {"TS", "LESS", "DOUBLE"}

\* handler h has been asked to compile for the event or swept file handled last
HasCompiled(h) == Ops(last[h], "compile") # {}

\* C12: whenever a handler constructed with a non-empty build directory compiles,
\* in the sweep or for an event, a directory exists at the path of its build
\* directory.
C12_BuildDirMade ==
    \A h \in WithBuildDir : HasCompiled(h) => bdirs[BuildDir(h)] = "dir"

\* C12 (amended): whenever such a handler compiles, something exists at the
\* path of its build directory; the only change ever made at that path is the
\* creation of the directory where nothing was, so a non-directory found there
\* stays and the handler compiles without a build directory.
C12_BuildDirMadeUnlessFile ==
    /\ [](\A h \in WithBuildDir : HasCompiled(h) => bdirs[BuildDir(h)] # "absent")
    /\ [][\A d \in BuildDirs :
            bdirs'[d] # bdirs[d] => (bdirs[d] = "absent" /\ bdirs'[d] = "dir")]_vars

\* the TS compiler compiles in its sweep: its build directory has been made,
\* that of the LESS compiler, not yet constructed, is still missing
C12_Witness ==
    /\ pc = At("sweep", "TS")
    /\ HasCompiled("TS")
    /\ bdirs[JsBuild] = "dir"
    /\ bdirs[CssDir] = "absent"

\* C13: in the main program the observer is started, and an event handled, only
\* once the constructors of all three compilers, and with them their sweeps,
\* have returned; while a constructor runs no event has been handled.
C13_SweepsBeforeEvents ==
    wiring = "prod"
    => /\ (pc.at \in {"start", "watching"} \/ IsEvent \/ nev > 0) => constructed = Compilers
       /\ pc.at \in {"init", "sweep", "crashed"} => (nev = 0 /\ ~IsEvent)

\* the first event has been handled; the three sweeps are over, those of the TS
\* and the template compiler having compiled files
C13_Witness ==
    /\ wiring = "prod"
    /\ nev = 1
    /\ IsEvent
    /\ constructed = Compilers
    /\ PathJoin(Dot, SrcAppTs) \in BagToSet(swept["TS"])
    /\ PathJoin(Dot, TJ2) \in BagToSet(swept["JINJA"])

\* C14: a sweep passes to compile only matching files outside ./node_modules,
\* each once; a compile that fails (the tool exits non-zero) does not stop the
\* sweep; and once the constructor has returned every such file was compiled.
C14_SweepCompilesEachOnce ==
    \A h \in Compilers :
        /\ \A f \in BagToSet(swept[h]) :
              /\ CopiesIn(f, swept[h]) = 1
              /\ Matches(h, f)
              /\ ~UnderRootNodeModules(f)
        /\ (ev.kind = "sweep" /\ Ops(last[h], "tool_fail") # {}) => pc # At("crashed", h)
        /\ (h \in constructed /\ nev = 0)
           => \A f \in files :
                (Matches(h, f) /\ ~UnderRootNodeModules(PathJoin(Dot, f)))
                => PathJoin(Dot, f) \in BagToSet(swept[h])

\* C15: the files a sweep passes to compile lie in the tree under the watch
\* root given on the command line, and once the constructor has returned every
\* matching file of that tree (outside its node_modules) was compiled.
C15_SweepWalksWatchRoot ==
    \A h \in Compilers :
        /\ \A f \in BagToSet(swept[h]) : Watched(FsPath(f))
        /\ (h \in constructed /\ nev = 0)
           => \A f \in files :
                (Matches(h, f) /\ Watched(f) /\ ~UnderRootNodeModules(PathJoin(Dot, f)))
                => PathJoin(Dot, f) \in BagToSet(swept[h])

\* C16: whatever is at the path of the build directory (nothing, a directory,
\* a non-directory), the constructor of a compiler goes on to the sweep from the
\* top of the working directory; it never fails because of the build
\* directory, and when it has returned the matching files were compiled.
C16_SweepWhateverBuildDir ==
    /\ [](\A h \in Compilers :
            /\ pc = At("crashed", h) => uncaught = "SinkError"
            /\ (h \in constructed /\ nev = 0)
               => \A f \in files :
                    (Matches(h, f) /\ ~UnderRootNodeModules(PathJoin(Dot, f)))
                    => PathJoin(Dot, f) \in BagToSet(swept[h]))
    /\ [][\A h \in Compilers :
            (pc = At("init", h) /\ pc' # pc) => (pc' = At("sweep", h) /\ walk' = <<Dot>>)]_vars

\* a non-directory is at the path "jsbuild": the constructor of the TS compiler
\* has returned all the same, after its sweep compiled ./src/app.ts
C16_Witness ==
    /\ bdirs[JsBuild] = "file"
    /\ "TS" \in constructed
    /\ PathJoin(Dot, SrcAppTs) \in BagToSet(swept["TS"])

\* the event handled last moved a file from the extension family of one
\* compiler of the main program to that of another
CrossFamilyMove ==
    /\ wiring = "prod"
    /\ ev.kind = "moved"
    /\ ~ev.isdir
    /\ \E g \in Compilers, h \in Compilers :
         g # h /\ Matches(g, ev.src) /\ Matches(h, ev.dest)

\* handler h has been asked to compile a file that is not of its family
CompiledForeign(h) == \E i \in Ops(last[h], "compile") : ~Matches(h, last[h].acts[i].a)

\* C17: a Moved event from the extension family of one compiler to that of
\* another makes a compiler compile a file that is not of its family.
C17_WrongCompiler == CrossFamilyMove => \E h \in Compilers : CompiledForeign(h)

\* C17 (amended): no handler is ever asked to compile a file outside its own
\* extension family; for a Moved event from one family to another no handler
\* compiles at all, so the moved file is left uncompiled.
C17_OwnFamilyOnly ==
    /\ \A h \in Handlers : ~CompiledForeign(h)
    /\ CrossFamilyMove => \A h \in Compilers : Ops(last[h], "compile") = {}

\* "src/app.ts" has been moved to "a.less": the TS handler deleted
\* "jsbuild/app.js" and compiled nothing, the LESS handler did nothing
C17_Witness ==
    /\ wiring = "prod"
    /\ ev = Event("moved", SrcAppTs, ALess, FALSE)
    /\ last["TS"] = Outcome(<<Act("rm", JsBuildAppJs, <<>>)>>, "none")
    /\ last["LESS"] = NoCall
    /\ uncaught = "none"

\* C20: when a handler handles a Moved event whose source and destination both
\* match it, every compile comes after a deletion and no deletion after a
\* compile; so an output the tool has written, even at the path just deleted
\* (as for "src/app.ts" moved to "lib/app.ts"), exists when the event is handled.
C20_DeleteThenCompile ==
    \A h \in Registered :
        (ev.kind = "moved" /\ ~ev.isdir /\ Matches(h, ev.src) /\ Matches(h, ev.dest))
        => /\ \A j \in Ops(last[h], "compile") :
                /\ \E i \in Ops(last[h], "rm") : i < j
                /\ \A i \in Ops(last[h], "rm") : i < j
           /\ \A j \in Ops(last[h], "tool_ok") :
                last[h].acts[j].b # <<>>
                => \E o \in outputs : o.out = last[h].acts[j].b /\ o.src = ev.dest

\* "src/app.ts" has been moved to "lib/app.ts": "jsbuild/app.js" was deleted,
\* then written again by the compile of the new path, and exists
C20_Witness ==
    /\ ev = Event("moved", SrcAppTs, LibAppTs, FALSE)
    /\ Ops(last["TS"], "rm") = {1}
    /\ last["TS"].acts[1].a = JsBuildAppJs
    /\ \E j \in Ops(last["TS"], "tool_ok") : last["TS"].acts[j].b = JsBuildAppJs
    /\ [out |-> JsBuildAppJs, src |-> LibAppTs] \in outputs

\* C18: at most one external tool runs at any moment, and only while the
\* thread waits for it inside a handler call; the thread takes the next event
\* only when no tool runs and the handling of the event before is over.
C18_OneAtATime ==
    /\ [](Len(inflight) <= 1 /\ (inflight # <<>> => thread.at = "tool"))
    /\ [][Len(queue') < Len(queue) => (inflight = <<>> /\ thread.at = "idle")]_vars

\* a compile is in flight, the thread waits for it, and the next event waits
\* in the queue
C18_Witness ==
    /\ thread.at = "tool"
    /\ Len(inflight) = 1
    /\ queue # <<>>

\* the extensions of the output files, written out
OutputExtensions == { <<".", "j", "s">>, <<".", "c", "s", "s">>, <<".", "h", "t", "m", "l">> }

\* nothing runs and nothing is left to do (or the thread has ended)
Quiet ==
    /\ inflight = <<>>
    /\ thread.at = "dead" \/ (thread.at = "idle" /\ queue = <<>>)

====
